---- MODULE Spec2Model ----
(***************************************************************************)
(* OPC UA <-> MQTT bridge (opcua_mqtt_bridge/bridge.py): the device        *)
(* session loop of run_bridge_forever, the command path on_message ->      *)
(* _schedule_write -> do_write, and the payload codec (payload.py).        *)
(*                                                                         *)
(* The main coroutine is cut at its await points: one action per stretch   *)
(* of code between two awaits.  The paho network thread runs on_message    *)
(* concurrently with the asyncio loop; write tasks run on the loop.        *)
(***************************************************************************)
EXTENDS Integers, Sequences, FiniteSets, TLC

\* ------------------------------------------------------------------ bounds
MaxCmds == 2        \* command messages delivered in one run
MaxSleeps == 7      \* consecutive backoff sleeps followed (session specification)
MaxRetries == 1     \* consecutive backoff sleeps followed (command specification)
MaxDepth == 3       \* largest browse.max_depth of the address-space walk

\* --------------------------------------------------------- program constants
backoff_init == 1
backoff_max == 30

Min(a, b) == IF a < b THEN a ELSE b

\* ------------------------------------------------------------------ catalog
\* tags.yaml as load_tags returns it: one read entry, two rw entries.
TagsRead == << [path |-> "temp", node |-> "ns=3;s=T", type |-> "float"] >>
TagsRw == << [path |-> "valve", node |-> "ns=3;s=V", type |-> "bool"],
             [path |-> "speed", node |-> "ns=3;s=S", type |-> "uint"] >>
RwPaths == {TagsRw[i].path : i \in 1..Len(TagsRw)}

Cmds == 1..MaxCmds

VARIABLES
  pc,                  \* position of run_bridge_forever (its pending await)
  stop_event,          \* asyncio.Event stop_event
  opc_online,          \* asyncio.Event opc_online
  reconnect_event,     \* asyncio.Event reconnect_event
  write_nodes,         \* dict path -> (node, type)
  backoff,             \* local backoff
  subscription,        \* local subscription is not None
  idx,                 \* number of the catalog entry whose subscribe is awaited
  need_export,         \* local need_export
  cfg,                 \* opts["opcua"] security settings and the files under /data/pki
  client_security,     \* policy and mode of the asyncua Client of this attempt
  bridge_cfg,          \* opts["bridge"]: auto_export_on_first_run, merge_into_tags_file
  export_file,         \* the export file: exists, its nodes, times written
  generated_tags_file, \* the generated catalog file: exists, content, times written
  tags_file,           \* the catalog file (tags.yaml): content, times written
  existing_tags,       \* local existing_tags
  tags,                \* local tags (load_tags at line 423)
  walks,               \* times browse_export was started
  at_start,            \* what the export and catalog files held at process start
  bus,                 \* the paho client: "new", "connecting", "up", "closed"
  bus_sub,             \* the client holds a subscription to <prefix>/#
  on_connect_cb,       \* mqtt_client.on_connect: "runtime" or "helper"
  result_rc,           \* mqtt_connect_or_fail's result["rc"]: << >> for None, else << rc >>
  avail,               \* retained payload of <prefix>/meta/availability
  out,                 \* availability payloads published by the last step
  delays,              \* delays handed to asyncio.sleep(backoff) since the last Active
  cmds,                \* the command messages and their write tasks
  pending_write_tasks, \* set pending_write_tasks
  write_lock,          \* asyncio.Lock write_lock: its holder, 0 if free
  lock_waiters         \* tasks queued on write_lock, in arrival order

vars == << pc, stop_event, opc_online, reconnect_event, write_nodes, backoff,
           subscription, idx, need_export, cfg, client_security, bridge_cfg, export_file,
           generated_tags_file, tags_file, existing_tags, tags, walks, at_start,
           bus, bus_sub, on_connect_cb, result_rc, avail, out, delays,
           cmds, pending_write_tasks, write_lock, lock_waiters >>

sessVars == << pc, opc_online, reconnect_event, write_nodes, backoff,
               subscription, idx, need_export, avail, delays >>
cmdVars == << cmds, pending_write_tasks, write_lock, lock_waiters >>
busVars == << bus, bus_sub, on_connect_cb, result_rc >>
optVars == << cfg, bridge_cfg >>
fileVars == << export_file, generated_tags_file, tags_file, existing_tags, tags, walks,
               at_start >>

\* ------------------------------------------------------------ payload codec
\* Text is modelled by the literals below; str.strip() and str.lower() are
\* tabulated on them, float() by the value in tenths (or no entry: ValueError).
Strip(s) ==
  CASE s = " on " -> "on"
    [] s = " 3.0 " -> "3.0"
    [] s = " " -> ""
    [] OTHER -> s

Lower(s) ==
  CASE s = "TRUE" -> "true"
    [] s = "On" -> "on"
    [] s = "No" -> "no"
    [] s = "Bool" -> "bool"
    [] s = "UInt" -> "uint"
    [] s = "Unknown" -> "unknown"
    [] s = "VariantType.Float" -> "varianttype.float"
    [] s = "VariantType.Boolean" -> "varianttype.boolean"
    [] s = "VariantType.UInt16" -> "varianttype.uint16"
    [] s = "VariantType.Int32" -> "varianttype.int32"
    [] OTHER -> s

FloatTenths ==
  [x \in {"0", "1", "3.0", "-3", "21.5", "-0.5", "70000"} |->
     CASE x = "0" -> 0
       [] x = "1" -> 10
       [] x = "3.0" -> 30
       [] x = "-3" -> -30
       [] x = "21.5" -> 215
       [] x = "-0.5" -> -5
       [] x = "70000" -> 700000]

IsFloatText(v) == v \in DOMAIN FloatTenths

\* int(x) of a float given in tenths: truncation toward zero
TruncTenths(x) == IF x >= 0 THEN x \div 10 ELSE -((-x) \div 10)

\* The values parse_payload returns, and the exception it raises instead.
VBool(b) == [ok |-> TRUE, kind |-> "bool", b |-> b, n |-> 0, s |-> "", err |-> ""]
VInt(n) == [ok |-> TRUE, kind |-> "int", b |-> FALSE, n |-> n, s |-> "", err |-> ""]
VFloat(x) == [ok |-> TRUE, kind |-> "float", b |-> FALSE, n |-> x, s |-> "", err |-> ""]
VStr(s) == [ok |-> TRUE, kind |-> "str", b |-> FALSE, n |-> 0, s |-> s, err |-> ""]
VErr(e) == [ok |-> FALSE, kind |-> "error", b |-> FALSE, n |-> 0, s |-> "", err |-> e]

ErrBool == "Invalid bool payload"
ErrNegative == "Negative not allowed for unsigned type"
ErrFloat == "could not convert string to float"
ErrInt == "invalid literal for int()"

\* Faulty variant, for sensitivity: the unsigned tags are parsed like the signed ones
parse_payload_NoNegativeCheck(payload, tag_type) ==
  LET v == Strip(payload)
      t == Lower(Strip(tag_type))
  IN CASE t \in {"bool", "boolean"} ->
            IF Lower(v) \in {"true", "1", "on", "yes"} THEN VBool(TRUE)
            ELSE IF Lower(v) \in {"false", "0", "off", "no"} THEN VBool(FALSE)
            ELSE VErr(ErrBool)
       [] t \in {"int", "dint", "sint", "lint", "uint", "udint", "usint", "ulint",
                 "word", "dword"} ->
            IF IsFloatText(v) THEN VInt(TruncTenths(FloatTenths[v])) ELSE VErr(ErrFloat)
       [] t \in {"float", "real", "lreal", "double", "number"} ->
            IF IsFloatText(v) THEN VFloat(FloatTenths[v]) ELSE VErr(ErrFloat)
       [] t \in {"string", "str", "datetime", "date", "time"} -> VStr(v)
       [] OTHER ->
            IF Lower(v) \in {"true", "false", "on", "off", "1", "0"}
            THEN VBool(Lower(v) \in {"true", "on", "1"})
            ELSE IF IsFloatText(v) THEN VFloat(FloatTenths[v])
            ELSE VStr(v)

parse_payload(payload, tag_type) ==
  LET v == Strip(payload)
      t == Lower(Strip(tag_type))
  IN CASE t \in {"bool", "boolean"} ->
            IF Lower(v) \in {"true", "1", "on", "yes"} THEN VBool(TRUE)
            ELSE IF Lower(v) \in {"false", "0", "off", "no"} THEN VBool(FALSE)
            ELSE VErr(ErrBool)
       [] t \in {"int", "dint", "sint", "lint"} ->
            IF IsFloatText(v) THEN VInt(TruncTenths(FloatTenths[v])) ELSE VErr(ErrFloat)
       [] t \in {"uint", "udint", "usint", "ulint", "word", "dword"} ->
            IF ~IsFloatText(v) THEN VErr(ErrFloat)
            ELSE IF TruncTenths(FloatTenths[v]) < 0 THEN VErr(ErrNegative)
            ELSE VInt(TruncTenths(FloatTenths[v]))
       [] t \in {"float", "real", "lreal", "double", "number"} ->
            IF IsFloatText(v) THEN VFloat(FloatTenths[v]) ELSE VErr(ErrFloat)
       [] t \in {"string", "str"} -> VStr(v)
       [] t \in {"datetime", "date", "time"} -> VStr(v)
       [] OTHER ->
            IF Lower(v) \in {"true", "false", "on", "off", "1", "0"}
            THEN VBool(Lower(v) \in {"true", "on", "1"})
            ELSE IF IsFloatText(v) THEN VFloat(FloatTenths[v])
            ELSE VStr(v)

\* The type tags parse_payload has a branch for (lines 8, 15, 18, 24, 27, 30);
\* any other tag is decoded by the fallback (34-40)
CodecTags ==
  {"bool", "boolean", "int", "dint", "sint", "lint", "uint", "udint", "usint", "ulint",
   "word", "dword", "float", "real", "lreal", "double", "number", "string", "str",
   "datetime", "date", "time"}

\* float(value) and int(value) of a parsed value, as the write site applies them
AsFloat(value) ==
  CASE value.kind = "float" -> VFloat(value.n)
    [] value.kind = "int" -> VFloat(value.n * 10)
    [] value.kind = "bool" -> VFloat(IF value.b THEN 10 ELSE 0)
    [] OTHER -> IF IsFloatText(value.s) THEN VFloat(FloatTenths[value.s]) ELSE VErr(ErrFloat)

AsInt(value) ==
  CASE value.kind = "float" -> VInt(TruncTenths(value.n))
    [] value.kind = "int" -> VInt(value.n)
    [] value.kind = "bool" -> VInt(IF value.b THEN 1 ELSE 0)
    [] OTHER -> IF value.s \in {"0", "1", "-3", "70000"}
                THEN VInt(TruncTenths(FloatTenths[value.s])) ELSE VErr(ErrInt)

\* ua.Variant(value, VariantType): the declared device type with the value
Variant(value, vtype) ==
  IF value.ok THEN [ok |-> TRUE, vtype |-> vtype, value |-> value, err |-> ""]
  ELSE [ok |-> FALSE, vtype |-> vtype, value |-> value, err |-> value.err]

variant_for_type(value, t) ==
  LET tt == Strip(Lower(t))
  IN CASE tt \in {"float", "real"} -> Variant(AsFloat(value), "Float")
       [] tt \in {"double", "lreal"} -> Variant(AsFloat(value), "Double")
       [] tt \in {"int", "int16"} -> Variant(AsInt(value), "Int16")
       [] tt \in {"dint", "int32"} -> Variant(AsInt(value), "Int32")
       [] tt \in {"uint", "uint16", "word"} -> Variant(AsInt(value), "UInt16")
       [] tt \in {"udint", "uint32", "dword"} -> Variant(AsInt(value), "UInt32")
       [] tt \in {"byte", "uint8"} -> Variant(AsInt(value), "Byte")
       [] tt \in {"bool", "boolean"} ->
            IF value.kind = "str"
            THEN Variant(VBool(Lower(Strip(value.s)) \in {"1", "true", "on", "yes"}), "Boolean")
            ELSE Variant(VBool(CASE value.kind = "bool" -> value.b
                                 [] OTHER -> value.n # 0), "Boolean")
       [] OTHER -> Variant(value, "Guess")

\* ----------------------------------------------------------------- security
map_security_policy(policy) ==
  CASE policy = "None" -> "SecurityPolicyNone"
    [] policy = "Basic128Rsa15" -> "SecurityPolicyBasic128Rsa15"
    [] policy = "Basic256" -> "SecurityPolicyBasic256"
    [] policy = "Basic256Sha256" -> "SecurityPolicyBasic256Sha256"
    [] OTHER -> "ValueError"

map_security_mode(mode) ==
  CASE mode = "None" -> "None_"
    [] mode = "Sign" -> "Sign"
    [] mode = "SignAndEncrypt" -> "SignAndEncrypt"
    [] OTHER -> "ValueError"

\* Faulty variant, for sensitivity: security counts as enabled as soon as one
\* of policy and mode is not None
security_enabled_Either(c) ==
  \/ map_security_policy(c.security_policy) # "SecurityPolicyNone"
  \/ map_security_mode(c.security_mode) # "None_"

security_enabled(c) ==
  /\ map_security_policy(c.security_policy) # "SecurityPolicyNone"
  /\ map_security_mode(c.security_mode) # "None_"

\* The checks of one connect attempt that raise before client.connect()
SecurityChecksRaise(c) ==
  \/ map_security_policy(c.security_policy) = "ValueError"
  \/ map_security_mode(c.security_mode) = "ValueError"
  \/ /\ security_enabled(c)
     /\ \/ ~c.client_cert
        \/ ~c.client_key
        \/ ~c.cert_contains_uri
        \/ (~c.auto_trust_server /\ ~c.server_cert)

CfgNone ==
  [security_policy |-> "None", security_mode |-> "None", client_cert |-> FALSE,
   client_key |-> FALSE, cert_contains_uri |-> FALSE, auto_trust_server |-> TRUE,
   server_cert |-> FALSE]

CfgSign ==
  [security_policy |-> "Basic256Sha256", security_mode |-> "Sign", client_cert |-> TRUE,
   client_key |-> TRUE, cert_contains_uri |-> TRUE, auto_trust_server |-> TRUE,
   server_cert |-> FALSE]

\* strict trust with the pinned server certificate in place
CfgStrict == [CfgSign EXCEPT !.auto_trust_server = FALSE, !.server_cert = TRUE]

\* settings and PKI directories on which a check of the attempt raises
CfgBadPolicy == [CfgSign EXCEPT !.security_policy = "Basic512"]
CfgBadMode == [CfgSign EXCEPT !.security_mode = "Encrypt"]
CfgNoCert == [CfgSign EXCEPT !.client_cert = FALSE, !.cert_contains_uri = FALSE]
CfgNoKey == [CfgSign EXCEPT !.client_key = FALSE]
CfgUriMismatch == [CfgSign EXCEPT !.cert_contains_uri = FALSE]
CfgStrictNoServerCert == [CfgSign EXCEPT !.auto_trust_server = FALSE]

\* SignAndEncrypt; a policy without a mode and a mode without a policy, both
\* on an empty PKI directory with strict trust
CfgEncrypt == [CfgSign EXCEPT !.security_mode = "SignAndEncrypt"]
CfgPolicyOnly ==
  [CfgNone EXCEPT !.security_policy = "Basic256Sha256", !.auto_trust_server = FALSE]
CfgModeOnly == [CfgNone EXCEPT !.security_mode = "Sign", !.auto_trust_server = FALSE]

\* a Client(url) as constructed at line 306, and the mode Client.set_security
\* applies when the call names none (asyncua: mode=MessageSecurityMode.SignAndEncrypt)
Unsecured == [policy |-> "SecurityPolicyNone", mode |-> "None_"]
set_security_default_mode == "SignAndEncrypt"

CfgPassing == {CfgNone, CfgSign, CfgStrict, CfgEncrypt, CfgPolicyOnly, CfgModeOnly}
CfgRaising == {CfgBadPolicy, CfgBadMode, CfgNoCert, CfgNoKey, CfgUriMismatch,
               CfgStrictNoServerCert}

\* -------------------------------------------------------------- tag catalog
\* A catalog as yaml.safe_load returns it: the read and rw lists; nulls marks
\* a file whose keys "read:" and "rw:" carry no value (both load as None).
EmptyCatalog == [read |-> << >>, rw |-> << >>, nulls |-> FALSE]
CatalogNull == [read |-> << >>, rw |-> << >>, nulls |-> TRUE]
CatalogFull == [read |-> TagsRead, rw |-> TagsRw, nulls |-> FALSE]
\* curated by the operator: the pump is bound read-only under a name of its own
CatalogCurated ==
  [read |-> << [path |-> "pump_state", node |-> "ns=3;s=P", type |-> "bool"] >>,
   rw |-> << [path |-> "valve", node |-> "ns=3;s=V", type |-> "bool"] >>,
   nulls |-> FALSE]

load_tags(file) == file.content

tags_is_empty(t) == (t.read = << >>) /\ (t.rw = << >>)

\* existing.get("read", []) + existing.get("rw", []) with None lists: TypeError
merge_tags_raises(existing) == existing.nulls

\* Faulty variant, for sensitivity: an address counts as present only if it is
\* bound in the list the generated entry would go to
merge_tags_SameListOnly(existing, generated) ==
  LET NodesOf(list) == {list[i].node : i \in 1..Len(list)} \ {""}
  IN [read |-> existing.read \o
                 SelectSeq(generated.read,
                           LAMBDA e : e.node # "" /\ e.node \notin NodesOf(existing.read)),
      rw |-> existing.rw \o
               SelectSeq(generated.rw,
                         LAMBDA e : e.node # "" /\ e.node \notin NodesOf(existing.rw)),
      nulls |-> FALSE]

merge_tags(existing, generated) ==
  LET all == existing.read \o existing.rw
      existing_nodes == {all[i].node : i \in 1..Len(all)} \ {""}
      IsNew(e) == e.node # "" /\ e.node \notin existing_nodes
  IN [read |-> existing.read \o SelectSeq(generated.read, IsNew),
      rw |-> existing.rw \o SelectSeq(generated.rw, IsNew),
      nulls |-> FALSE]

\* Faulty variants, for sensitivity: need_export without the file conditions,
\* and without the auto-export option
NeedExport_Always(auto_export, export_exists, existing) == auto_export

NeedExport_WithoutAutoExport(auto_export, export_exists, existing) ==
  ~export_exists \/ tags_is_empty(existing)

\* need_export as computed once at process start (line 165)
NeedExport(auto_export, export_exists, existing) ==
  auto_export /\ (~export_exists \/ tags_is_empty(existing))

\* ---------------------------------------------------------- discovery export
\* _sanitize_path_part, tabulated on the browse names below
sanitize_path_part(s) ==
  CASE s = "DB1" -> "db1"
    [] s = "Temp" -> "temp"
    [] s = "Valve" -> "valve"
    [] s = "Pumpe 1" -> "pumpe_1"
    [] s = "Level (%)" -> "level"
    [] s = "Deep" -> "deep"
    [] s = "Speed" -> "speed"
    [] s = "Server" -> "server"
    [] s = "Status" -> "status"
    [] s = " " -> ""
    [] OTHER -> s

\* "/".join(list)
RECURSIVE slash_join(_)
slash_join(list) ==
  IF list = << >> THEN ""
  ELSE IF Len(list) = 1 THEN list[1]
  ELSE list[1] \o "/" \o slash_join(Tail(list))

join_path(parts) ==
  LET kept == SelectSeq(parts, LAMBDA p : Strip(p) # "")
  IN slash_join([i \in 1..Len(kept) |-> sanitize_path_part(kept[i])])

\* Faulty variant, for sensitivity: any access beyond CurrentRead counts as writable
access_can_write_BeyondRead(access_level) == access_level > 1

access_can_write(access_level) == (access_level \div 2) % 2 = 1

export_to_tags(nodes) ==
  LET entry(n) == [path |-> join_path(n.browsePath), node |-> n.nodeId, type |-> n.dataType]
      ro == SelectSeq(nodes, LAMBDA n : ~access_can_write(n.accessLevel))
      wr == SelectSeq(nodes, LAMBDA n : access_can_write(n.accessLevel))
  IN [read |-> [i \in 1..Len(ro) |-> entry(ro[i])],
      rw |-> [i \in 1..Len(wr) |-> entry(wr[i])],
      nulls |-> FALSE]

\* The variables browse_export returns (export["nodes"])
NodeT == [nodeId |-> "ns=3;s=T", browsePath |-> << "DB1", "Temp" >>,
          dataType |-> "VariantType.Float", accessLevel |-> 1]
NodeV == [nodeId |-> "ns=3;s=V", browsePath |-> << "DB1", "Valve" >>,
          dataType |-> "VariantType.Boolean", accessLevel |-> 3]
NodeP == [nodeId |-> "ns=3;s=P", browsePath |-> << "DB1", "Pumpe 1" >>,
          dataType |-> "VariantType.Boolean", accessLevel |-> 3]
NodeL == [nodeId |-> "ns=3;s=L", browsePath |-> << "DB1", "Level (%)" >>,
          dataType |-> "Unknown", accessLevel |-> 1]

ExportNothing == << >>
ExportPlant == << NodeT, NodeV, NodeP, NodeL >>
ExportPump == << NodeP >>
Exports == {ExportNothing, ExportPlant, ExportPump}

\* The device's address space below client.nodes.objects: per node its browse
\* name, node class, namespace index, node id, what
\* read_data_type_as_variant_type and the AccessLevel attribute give ("Unknown"
\* where the data type cannot be read), and get_children().  DB1 and Deep
\* reference each other, and Temp hangs under both DB1 and "Pumpe 1".
Obj(name, ns, children) ==
  [name |-> name, nclass |-> "Object", ns |-> ns, nodeId |-> "", dataType |-> "",
   accessLevel |-> 0, children |-> children]

Var(name, ns, nodeId, dataType, accessLevel) ==
  [name |-> name, nclass |-> "Variable", ns |-> ns, nodeId |-> nodeId,
   dataType |-> dataType, accessLevel |-> accessLevel, children |-> << >>]

DeviceSpace ==
  [n \in {"Objects", "Server", "St", "DB1", "T", "V", "Deep", "L", "Pumpe", "P"} |->
     CASE n = "Objects" -> Obj("Objects", 0, << "Server", "DB1", "Pumpe" >>)
       [] n = "Server" -> Obj("Server", 0, << "St" >>)
       [] n = "St" -> Var("Status", 0, "i=2256", "VariantType.Int32", 1)
       [] n = "DB1" -> Obj("DB1", 3, << "T", "V", "Deep" >>)
       [] n = "T" -> Var("Temp", 3, "ns=3;s=T", "VariantType.Float", 1)
       [] n = "V" -> Var("Valve", 3, "ns=3;s=V", "VariantType.Boolean", 3)
       [] n = "Deep" -> Obj("Deep", 3, << "L", "DB1" >>)
       [] n = "L" -> Var("Level (%)", 3, "ns=3;s=L", "Unknown", 5)
       [] n = "Pumpe" -> Obj("Pumpe 1", 3, << "P", "T" >>)
       [] n = "P" -> Var("Speed", 3, "ns=3;s=P", "VariantType.UInt16", 2)]

\* str.startswith on the names above and the prefixes configured below: a
\* prefix is given by its segments between "/" ("Server/" is << "Server", "" >>)
StrStartsWith(seg, p) ==
  \/ p = ""
  \/ p = seg
  \/ << seg, p >> \in {<< "DB1", "DB" >>, << "db1", "db" >>, << "Pumpe 1", "Pumpe" >>,
                       << "pumpe_1", "pumpe" >>, << "Server", "Serv" >>}

\* "/".join(parts).startswith(prefix)
path_startswith(parts, prefix) ==
  /\ Len(prefix) >= 1
  /\ Len(parts) >= Len(prefix)
  /\ \A i \in 1..(Len(prefix) - 1) : parts[i] = prefix[i]
  /\ StrStartsWith(parts[Len(prefix)], prefix[Len(prefix)])

\* browse_export's walk(node, path_parts, depth), as the list of the records
\* it appends to results; walk_children is its "for ch in children" loop.
RECURSIVE walk(_, _, _, _, _)
RECURSIVE walk_children(_, _, _, _, _)
walk(space, browse, node, path_parts, depth) ==
  IF depth > browse.max_depth THEN << >>
  ELSE walk_children(space, browse, space[node].children, path_parts, depth)

walk_children(space, browse, children, path_parts, depth) ==
  IF children = << >> THEN << >>
  ELSE
    LET ch == space[Head(children)]
        new_parts == Append(path_parts, ch.name)
        excluded == \E p \in browse.exclude_prefixes : path_startswith(new_parts, p)
        not_included ==
          /\ browse.include_only_prefixes # {}
          /\ ~\E p \in browse.include_only_prefixes : StrStartsWith(new_parts[1], p)
        filtered_ns ==
          /\ browse.namespace_filter # {}
          /\ ch.ns \notin browse.namespace_filter
        record == [nodeId |-> ch.nodeId, browsePath |-> new_parts,
                   dataType |-> ch.dataType, accessLevel |-> ch.accessLevel]
        below == walk(space, browse, Head(children), new_parts, depth + 1)
        here ==
          IF excluded \/ not_included THEN << >>
          ELSE IF ch.nclass = "Variable"
               THEN IF filtered_ns THEN << >> ELSE << record >> \o below
          ELSE IF ch.nclass = "Object" THEN below
          ELSE << >>
    IN here \o walk_children(space, browse, Tail(children), path_parts, depth)

\* await walk(root, [], 0); export["nodes"]
browse_export(space, browse) == walk(space, browse, "Objects", << >>, 0)

\* browse_cfg: max_depth, namespace_filter, exclude_path_prefixes,
\* include_only_prefixes (lines 389-392)
BrowseCfgs ==
  [max_depth : {0, 1, MaxDepth},
   namespace_filter : {{}, {3}},
   exclude_prefixes : {{}, {<< "Server", "" >>}, {<< "pumpe_1" >>}},
   include_only_prefixes : {{}, {"DB"}}]

\* ------------------------------------------------------------- availability
AvailMsg(payload) == [topic |-> "meta/availability", payload |-> payload, retain |-> TRUE]

PublishAvail(payload) ==
  /\ out' = << AvailMsg(payload) >>
  /\ avail' = payload

NoAvail ==
  /\ out' = << >>
  /\ UNCHANGED avail

\* ------------------------------------------------------------ session state
\* The spec's SessionState, read off the position of the main coroutine; a
\* fault notification (_on_sub_status) has moved an Active session on to
\* Reconnecting before the idle loop sees reconnect_event.
SessionState ==
  CASE pc \in {"MqttConnect"} -> "Init"
    [] pc = "ConnectingBus" -> "ConnectingBus"
    [] pc \in {"LoopTop", "Connecting"} -> "ConnectingDevice"
    [] pc = "Securing" -> "Securing"
    [] pc = "Discovery" -> "Discovery"
    [] pc \in {"CreateSub", "SubRead", "SubRW"} -> "Subscribing"
    [] pc = "Active" /\ ~reconnect_event -> "Active"
    [] pc = "Active" /\ reconnect_event -> "Reconnecting"
    [] pc \in {"RecSubDel", "RecDisc", "Backoff"} -> "Reconnecting"
    [] pc \in {"StopSubDel", "StopDisc"} -> "Stopping"
    [] OTHER -> "Terminated"

Running == pc \notin {"Terminated", "Aborted"}

\* ------------------------------------------------------------ write tasks
NewCmd ==
  [phase |-> "unsent", path |-> "", payload |-> "", retain |-> FALSE, node |-> "",
   t |-> "", pubs |-> << >>, dev |-> "none", rcv_active |-> FALSE,
   overtaken |-> FALSE, thread |-> "none"]

\* (thread: the thread the last step of the command's handling ran on, "paho"
\* for the bus client's network thread, "loop" for the asyncio main loop)
\* The record of a command whose handling is over
Over(rec, phase) == [rec EXCEPT !.phase = phase]

\* Faulty variant, for sensitivity: a cancelled task keeps the lock it holds
CancelPending_KeepsLock ==
  /\ cmds' = [c \in Cmds |->
               IF c \in pending_write_tasks
               THEN Over([cmds[c] EXCEPT !.overtaken = TRUE], "cancelled")
               ELSE IF cmds[c].phase = "queued" THEN [cmds[c] EXCEPT !.overtaken = TRUE]
               ELSE cmds[c]]
  /\ UNCHANGED write_lock
  /\ lock_waiters' = SelectSeq(lock_waiters, LAMBDA c : c \notin pending_write_tasks)
  /\ pending_write_tasks' = {}

\* for t in list(pending_write_tasks): t.cancel(); pending_write_tasks.clear()
\* A cancelled task raises CancelledError at its await (or never starts), which
\* do_write's "except Exception" does not catch: it leaves the lock and ends.
\* overtaken marks the commands accepted before this point and not finished:
\* the tasks cancelled here, and the commands already handed to
\* call_soon_threadsafe whose task does not exist yet (not in the set).
CancelPending ==
  /\ cmds' = [c \in Cmds |->
               IF c \in pending_write_tasks
               THEN Over([cmds[c] EXCEPT !.overtaken = TRUE], "cancelled")
               ELSE IF cmds[c].phase = "queued" THEN [cmds[c] EXCEPT !.overtaken = TRUE]
               ELSE cmds[c]]
  /\ write_lock' = IF write_lock \in pending_write_tasks THEN 0 ELSE write_lock
  /\ lock_waiters' = SelectSeq(lock_waiters, LAMBDA c : c \notin pending_write_tasks)
  /\ pending_write_tasks' = {}

\* --------------------------------------------------------- the main coroutine
\* except Exception as e: ... up to the first await of the handler
\* (sub: whether the local subscription is not None where the exception is raised)
ExceptHandler(sub) ==
  /\ opc_online' = FALSE
  /\ write_nodes' = << >>
  /\ CancelPending
  /\ subscription' = sub
  /\ pc' = IF sub THEN "RecSubDel" ELSE "RecDisc"
  /\ NoAvail
  /\ UNCHANGED << stop_event, backoff, idx, optVars, busVars, delays >>

\* an exception raised where the attempt has written no file
ExceptEntry(sub) ==
  /\ ExceptHandler(sub)
  /\ UNCHANGED << need_export, fileVars, client_security >>

\* await mqtt_connect_or_fail(...): the helper installs its own on_connect
MqttConnectStart ==
  /\ pc = "MqttConnect"
  /\ pc' = "ConnectingBus"
  /\ on_connect_cb' = "helper"
  /\ bus' = "connecting"
  /\ NoAvail
  /\ UNCHANGED << stop_event, opc_online, reconnect_event, write_nodes, backoff,
                  subscription, idx, need_export, optVars, client_security, fileVars, bus_sub, result_rc, delays,
                  cmdVars >>

\* Faulty variant, for sensitivity: a refused first connection is not an error
MqttConnAck_IgnoresRefusal(rc) ==
  /\ pc = "ConnectingBus"
  /\ result_rc' = IF rc = -1 THEN << >> ELSE << rc >>
  /\ pc' = "LoopTop"
  /\ bus' = "up"
  /\ bus_sub' = TRUE
  /\ backoff' = backoff_init
  /\ NoAvail
  /\ UNCHANGED << stop_event, opc_online, reconnect_event, write_nodes, subscription,
                  idx, need_export, optVars, client_security, fileVars, on_connect_cb, delays, cmdVars >>

\* The first CONNACK with reason code rc (-1: none within 10 s); rc = 0 goes on
\* to subscribe <prefix>/# and to the reconnect loop, anything else raises
\* MqttConnectError out of run_bridge_forever.
MqttConnAck(rc) ==
  /\ pc = "ConnectingBus"
  /\ result_rc' = IF rc = -1 THEN << >> ELSE << rc >>
  /\ IF rc = 0
     THEN /\ pc' = "LoopTop"
          /\ bus' = "up"
          /\ bus_sub' = TRUE
          /\ backoff' = backoff_init
     ELSE /\ pc' = "Aborted"
          /\ UNCHANGED << bus, bus_sub, backoff >>
  /\ NoAvail
  /\ UNCHANGED << stop_event, opc_online, reconnect_event, write_nodes, subscription,
                  idx, need_export, optVars, client_security, fileVars, on_connect_cb, delays, cmdVars >>

\* Faulty variant, for sensitivity: the attempt goes on without the checks
LoopTop_NoChecks(cap) ==
  /\ pc = "LoopTop"
  /\ pc' = IF security_enabled(cfg) THEN "Securing" ELSE "Connecting"
  /\ client_security' = Unsecured
  /\ reconnect_event' = FALSE
  /\ subscription' = FALSE
  /\ NoAvail
  /\ UNCHANGED << stop_event, opc_online, write_nodes, backoff, idx, need_export,
                  optVars, fileVars, busVars, delays, cmdVars >>

\* Top of "while True" to the first await: the security checks, then either
\* await client.set_security(...) or await client.connect().  A check that
\* raises lands in the handler like any other exception of the attempt (the
\* consecutive attempts followed are capped as long as no stop signal ends
\* them).
LoopTop(cap) ==
  /\ pc = "LoopTop"
  /\ IF SecurityChecksRaise(cfg)
     THEN /\ Len(delays) < cap \/ stop_event
          /\ ExceptHandler(FALSE)
          /\ UNCHANGED << need_export, fileVars >>
          /\ reconnect_event' = FALSE
     ELSE /\ pc' = IF security_enabled(cfg) THEN "Securing" ELSE "Connecting"
          /\ reconnect_event' = FALSE
          /\ subscription' = FALSE
          /\ NoAvail
          /\ UNCHANGED << stop_event, opc_online, write_nodes, backoff, idx, need_export,
                          optVars, fileVars, busVars, delays, cmdVars >>
  /\ client_security' = Unsecured

\* await client.set_security(pol, certificate=..., private_key=...[,
\* server_certificate=...]) has returned (lines 357-365).  The call names no
\* mode, so the client takes the mode set_security defaults to.
SetSecurityOK ==
  /\ pc = "Securing"
  /\ pc' = "Connecting"
  /\ client_security' = [policy |-> map_security_policy(cfg.security_policy),
                         mode |-> set_security_default_mode]
  /\ NoAvail
  /\ UNCHANGED << stop_event, opc_online, reconnect_event, write_nodes, backoff,
                  subscription, idx, need_export, optVars, fileVars, busVars, delays, cmdVars >>

\* An await of the attempt raises (connect, set_security, browse, subscribe ...)
AwaitRaises(at, cap) ==
  /\ pc = at
  /\ Len(delays) < cap
  /\ ExceptEntry(subscription)
  /\ UNCHANGED reconnect_event

\* Faulty variant, for sensitivity: the delay is reset as soon as the device connect succeeds
ConnectOK_ResetsBackoff ==
  /\ pc = "Connecting"
  /\ write_nodes' = << >>
  /\ opc_online' = TRUE
  /\ reconnect_event' = FALSE
  /\ PublishAvail("online")
  /\ backoff' = 1
  /\ IF need_export
     THEN /\ pc' = "Discovery"
          /\ walks' = walks + 1
          /\ UNCHANGED tags
     ELSE /\ pc' = "CreateSub"
          /\ tags' = load_tags(tags_file)
          /\ UNCHANGED walks
  /\ UNCHANGED << export_file, generated_tags_file, tags_file, existing_tags, at_start >>
  /\ UNCHANGED << stop_event, subscription, idx, need_export, optVars, client_security, busVars,
                  delays, cmdVars >>

\* await client.connect() returned: lines 381-385, then up to the next await:
\* browse_export if need_export, else load_tags and create_subscription
ConnectOK ==
  /\ pc = "Connecting"
  /\ write_nodes' = << >>
  /\ opc_online' = TRUE
  /\ reconnect_event' = FALSE
  /\ PublishAvail("online")
  /\ IF need_export
     THEN /\ pc' = "Discovery"
          /\ walks' = walks + 1
          /\ UNCHANGED tags
     ELSE /\ pc' = "CreateSub"
          /\ tags' = load_tags(tags_file)
          /\ UNCHANGED walks
  /\ UNCHANGED << export_file, generated_tags_file, tags_file, existing_tags, at_start >>
  /\ UNCHANGED << stop_event, backoff, subscription, idx, need_export, optVars, client_security,
                  busVars, delays, cmdVars >>

\* browse_export returned nodes (it swallows the exceptions of the walk), then
\* lines 403-423: the export file, the generated catalog and, if merge_into,
\* the merged catalog are written; need_export = False; load_tags.  fail
\* names the file whose write raises OSError ("none": no write fails;
\* a write that raises is taken to leave the file as it was); merge_tags
\* raises on a catalog with None lists.  Every exception lands in the handler.
DiscoveryReturns(nodes, fail, cap) ==
  LET generated == export_to_tags(nodes)
      merge_into == bridge_cfg.merge_into
      raises_at ==
        CASE fail \in {"export", "generated"} -> fail
          [] merge_into /\ merge_tags_raises(existing_tags) -> "merge"
          [] merge_into /\ fail = "tags" -> "tags"
          [] OTHER -> "none"
      merged == merge_tags(existing_tags, generated)
  IN /\ pc = "Discovery"
     /\ raises_at # "none" => Len(delays) < cap
     /\ export_file' =
          IF raises_at = "export" THEN export_file
          ELSE [exists |-> TRUE, nodes |-> nodes, writes |-> export_file.writes + 1]
     /\ generated_tags_file' =
          IF raises_at \in {"export", "generated"} THEN generated_tags_file
          ELSE [exists |-> TRUE, content |-> generated,
                writes |-> generated_tags_file.writes + 1]
     /\ IF raises_at = "none" /\ merge_into
        THEN /\ tags_file' = [content |-> merged, writes |-> tags_file.writes + 1]
             /\ existing_tags' = merged
        ELSE UNCHANGED << tags_file, existing_tags >>
     /\ UNCHANGED << walks, at_start >>
     /\ IF raises_at = "none"
        THEN /\ need_export' = FALSE
             /\ tags' = load_tags(tags_file')
             /\ pc' = "CreateSub"
             /\ NoAvail
             /\ UNCHANGED << stop_event, opc_online, reconnect_event, write_nodes, backoff,
                             subscription, idx, optVars, client_security, busVars, delays, cmdVars >>
        ELSE /\ ExceptHandler(subscription)
             /\ UNCHANGED client_security
             /\ UNCHANGED << need_export, tags, reconnect_event >>

\* Entering the rw loop at entry k: write_nodes[path] = (node, t), then
\* await subscription.subscribe_data_change(node); past the last entry the
\* loop is left: backoff = 1 and the idle loop.
SubscribeRwFrom(k) ==
  IF k <= Len(tags.rw)
  THEN /\ write_nodes' = [p \in (DOMAIN write_nodes) \cup {tags.rw[k].path} |->
                            IF p = tags.rw[k].path
                            THEN [node |-> tags.rw[k].node, t |-> tags.rw[k].type]
                            ELSE write_nodes[p]]
       /\ pc' = "SubRW"
       /\ idx' = k
       /\ UNCHANGED << backoff, delays >>
  ELSE /\ pc' = "Active"
       /\ idx' = 0
       /\ backoff' = 1
       /\ delays' = << >>
       /\ UNCHANGED write_nodes

SubscribeReadFrom(k) ==
  IF k <= Len(tags.read)
  THEN /\ pc' = "SubRead"
       /\ idx' = k
       /\ UNCHANGED << write_nodes, backoff, delays >>
  ELSE SubscribeRwFrom(1)

\* await client.create_subscription(...) returned; "for tag in None" raises
\* TypeError on a catalog with None lists
CreateSubOK(cap) ==
  /\ pc = "CreateSub"
  /\ IF tags.nulls
     THEN /\ Len(delays) < cap
          /\ ExceptEntry(TRUE)
          /\ UNCHANGED reconnect_event
     ELSE /\ subscription' = TRUE
          /\ SubscribeReadFrom(1)
          /\ NoAvail
          /\ UNCHANGED << stop_event, opc_online, reconnect_event, need_export, optVars, client_security,
                          fileVars, busVars, cmdVars >>

SubReadOK ==
  /\ pc = "SubRead"
  /\ SubscribeReadFrom(idx + 1)
  /\ NoAvail
  /\ UNCHANGED << stop_event, opc_online, reconnect_event, subscription, need_export,
                  optVars, client_security, fileVars, busVars, cmdVars >>

SubRwOK ==
  /\ pc = "SubRW"
  /\ SubscribeRwFrom(idx + 1)
  /\ NoAvail
  /\ UNCHANGED << stop_event, opc_online, reconnect_event, subscription, need_export,
                  optVars, client_security, fileVars, busVars, cmdVars >>

\* Faulty variant, for sensitivity: the idle loop waits for reconnect_event only
IdleLoopExit_IgnoresStop ==
  /\ pc = "Active"
  /\ reconnect_event
  /\ ExceptEntry(subscription)
  /\ UNCHANGED reconnect_event

\* The idle loop ends: "raise RuntimeError(reconnect_requested)" if
\* reconnect_event is set, else the stop path up to await subscription.delete()
IdleLoopExit ==
  /\ pc = "Active"
  /\ stop_event \/ reconnect_event
  /\ IF reconnect_event
     THEN /\ ExceptEntry(subscription)
          /\ UNCHANGED reconnect_event
     ELSE /\ opc_online' = FALSE
          /\ write_nodes' = << >>
          /\ CancelPending
          /\ pc' = "StopSubDel"
          /\ NoAvail
          /\ UNCHANGED << stop_event, reconnect_event, backoff, subscription, idx,
                          need_export, optVars, client_security, fileVars, busVars, delays >>

\* stop path: await subscription.delete() is over (an exception is swallowed)
StopSubDeleted ==
  /\ pc = "StopSubDel"
  /\ pc' = "StopDisc"
  /\ NoAvail
  /\ UNCHANGED << stop_event, opc_online, reconnect_event, write_nodes, backoff,
                  subscription, idx, need_export, optVars, client_security, fileVars, busVars, delays, cmdVars >>

\* stop path: await client.disconnect() is over; publish offline,
\* mqtt_client.disconnect(), loop_stop(), break
StopDisconnected ==
  /\ pc = "StopDisc"
  /\ PublishAvail("offline")
  /\ bus' = "closed"
  /\ pc' = "Terminated"
  /\ UNCHANGED << stop_event, opc_online, reconnect_event, write_nodes, backoff,
                  subscription, idx, need_export, optVars, client_security, fileVars, bus_sub, on_connect_cb,
                  result_rc, delays, cmdVars >>

\* handler: await subscription.delete() is over
RecSubDeleted ==
  /\ pc = "RecSubDel"
  /\ pc' = "RecDisc"
  /\ NoAvail
  /\ UNCHANGED << stop_event, opc_online, reconnect_event, write_nodes, backoff,
                  subscription, idx, need_export, optVars, client_security, fileVars, busVars, delays, cmdVars >>

\* Faulty variant, for sensitivity: the handler leaves out its offline publish
RecDisconnected_NoPublish ==
  /\ pc = "RecDisc"
  /\ NoAvail
  /\ IF stop_event
     THEN /\ pc' = "Terminated"
          /\ UNCHANGED delays
     ELSE /\ pc' = "Backoff"
          /\ delays' = Append(delays, backoff)
  /\ UNCHANGED << stop_event, opc_online, reconnect_event, write_nodes, backoff,
                  subscription, idx, need_export, optVars, client_security, fileVars, busVars, cmdVars >>

\* Faulty variant, for sensitivity: the handler ends the loop after every fault
RecDisconnected_Fatal ==
  /\ pc = "RecDisc"
  /\ PublishAvail("offline")
  /\ pc' = "Terminated"
  /\ UNCHANGED << stop_event, opc_online, reconnect_event, write_nodes, backoff,
                  subscription, idx, need_export, optVars, client_security, fileVars, busVars, delays, cmdVars >>

\* handler: await client.disconnect() is over; publish offline; break if
\* stop_event is set, else await asyncio.sleep(backoff)
RecDisconnected ==
  /\ pc = "RecDisc"
  /\ PublishAvail("offline")
  /\ IF stop_event
     THEN /\ pc' = "Terminated"
          /\ UNCHANGED delays
     ELSE /\ pc' = "Backoff"
          /\ delays' = Append(delays, backoff)
  /\ UNCHANGED << stop_event, opc_online, reconnect_event, write_nodes, backoff,
                  subscription, idx, need_export, optVars, client_security, fileVars, busVars, cmdVars >>

\* Faulty variant, for sensitivity: the delay doubles without the cap
BackoffOver_NoCap ==
  /\ pc = "Backoff"
  /\ backoff' = backoff * 2
  /\ pc' = "LoopTop"
  /\ NoAvail
  /\ UNCHANGED << stop_event, opc_online, reconnect_event, write_nodes, subscription,
                  idx, need_export, optVars, client_security, fileVars, busVars, delays, cmdVars >>

\* asyncio.sleep(backoff) is over: backoff = min(backoff * 2, backoff_max)
BackoffOver ==
  /\ pc = "Backoff"
  /\ backoff' = Min(backoff * 2, backoff_max)
  /\ pc' = "LoopTop"
  /\ NoAvail
  /\ UNCHANGED << stop_event, opc_online, reconnect_event, write_nodes, subscription,
                  idx, need_export, optVars, client_security, fileVars, busVars, delays, cmdVars >>

\* _on_sub_status: the handler's status_change_notification, delivered on the
\* main loop while the subscription of this attempt exists
on_sub_status(cap) ==
  /\ pc \in {"SubRead", "SubRW", "Active", "RecSubDel", "StopSubDel"}
  /\ Len(delays) < cap
  /\ opc_online' = FALSE
  /\ write_nodes' = << >>
  /\ CancelPending
  /\ PublishAvail("offline")
  /\ reconnect_event' = TRUE
  /\ UNCHANGED << pc, stop_event, backoff, subscription, idx, need_export, optVars, client_security, fileVars, busVars,
                  delays >>

\* SIGTERM / SIGINT: stop_event.set
StopSignal ==
  /\ Running
  /\ ~stop_event
  /\ stop_event' = TRUE
  /\ NoAvail
  /\ UNCHANGED << sessVars, optVars, client_security, fileVars, busVars, cmdVars >>

\* ------------------------------------------------------------ bus outages
\* The connection to the broker is lost.  The client was created without
\* clean_session (bridge.py:175-178), so the broker forgets the session's
\* subscriptions; on_disconnect only logs.
BusLost ==
  /\ Running
  /\ bus = "up"
  /\ bus' = "down"
  /\ bus_sub' = FALSE
  /\ NoAvail
  /\ UNCHANGED << sessVars, stop_event, optVars, client_security, fileVars, on_connect_cb, result_rc, cmdVars >>

\* paho's network thread (loop_start, reconnect_delay_set) has connected
\* again and calls mqtt_client.on_connect.  on_connect_runtime (252-263)
\* publishes the availability and subscribes <prefix>/#; the on_connect of
\* mqtt_connect_or_fail (mqtt_helpers.py:14-18) only stores the reason code.
BusReconnected ==
  /\ Running
  /\ bus = "down"
  /\ bus' = "up"
  /\ IF on_connect_cb = "runtime"
     THEN /\ PublishAvail(IF opc_online THEN "online" ELSE "offline")
          /\ bus_sub' = TRUE
          /\ UNCHANGED result_rc
     ELSE /\ result_rc' = << 0 >>
          /\ NoAvail
          /\ UNCHANGED bus_sub
  /\ UNCHANGED << pc, opc_online, reconnect_event, write_nodes, backoff, subscription, idx,
                  need_export, delays, stop_event, optVars, client_security, fileVars, on_connect_cb, cmdVars >>

\* ------------------------------------------------------------ the operator
\* The operator adds a binding to the catalog file on disk while the bridge
\* runs (tags.yaml lies in /config, which the operator edits).
OperatorBinding == [path |-> "fan", node |-> "ns=3;s=F", type |-> "bool"]

OperatorEdit ==
  /\ Running
  /\ ~tags_file.content.nulls
  /\ \A i \in 1..Len(tags_file.content.rw) : tags_file.content.rw[i] # OperatorBinding
  /\ tags_file' = [tags_file EXCEPT !.content.rw = Append(@, OperatorBinding)]
  /\ NoAvail
  /\ UNCHANGED << sessVars, stop_event, optVars, client_security, busVars, cmdVars,
                  export_file, generated_tags_file, existing_tags, tags, walks, at_start >>

\* ------------------------------------------------------------ command path
topic_status(path) == << path, "status" >>
topic_error(path) == << path, "error" >>

Msg(topic, payload) == [topic |-> topic, payload |-> payload, retain |-> FALSE]

\* The commands delivered: <prefix>/<path>/set with a payload
CmdInputs == { << "valve", "On" >>, << "valve", "maybe" >>,
               << "speed", " 3.0 " >>, << "speed", "-3" >> }

\* Faulty variant, for sensitivity: on_message without its "never accept retained writes" return
on_message_lookup_NoRetainCheck(c, path, payload, retain) ==
  /\ Running
  /\ bus = "up" /\ bus_sub
  /\ cmds[c].phase = "unsent"
  /\ \A d \in Cmds : d < c => cmds[d].phase \notin {"unsent", "msg"}
  /\ cmds' = [cmds EXCEPT ![c] =
               IF path \notin DOMAIN write_nodes
               THEN [@ EXCEPT !.phase = "ignored", !.retain = retain, !.thread = "paho",
                              !.rcv_active = (SessionState = "Active")]
               ELSE [@ EXCEPT !.phase = "msg", !.path = path, !.payload = payload,
                              !.retain = retain, !.node = write_nodes[path].node,
                              !.t = write_nodes[path].t, !.thread = "paho",
                              !.rcv_active = (SessionState = "Active")]]
  /\ NoAvail
  /\ UNCHANGED << sessVars, stop_event, optVars, client_security, fileVars, busVars, pending_write_tasks, write_lock,
                  lock_waiters >>

\* on_message, lines 190-209, on the paho thread: the message of command c
\* arrives on <prefix>/<path>/set.  Not in write_nodes: ignored; retained:
\* ignored; else the payload is decoded and node and type are read from
\* write_nodes.  (Of a message dropped here only the retain flag is kept;
\* rcv_active records whether the session was Active when it arrived.)
on_message_lookup(c, path, payload, retain) ==
  /\ Running
  /\ bus = "up" /\ bus_sub
  /\ cmds[c].phase = "unsent"
  /\ \A d \in Cmds : d < c => cmds[d].phase \notin {"unsent", "msg"}
  /\ cmds' = [cmds EXCEPT ![c] =
               IF path \notin DOMAIN write_nodes
               THEN [@ EXCEPT !.phase = "ignored", !.retain = retain, !.thread = "paho",
                              !.rcv_active = (SessionState = "Active")]
               ELSE IF retain
               THEN [@ EXCEPT !.phase = "discarded", !.retain = retain, !.thread = "paho",
                              !.rcv_active = (SessionState = "Active")]
               ELSE [@ EXCEPT !.phase = "msg", !.path = path, !.payload = payload,
                              !.retain = retain, !.node = write_nodes[path].node,
                              !.t = write_nodes[path].t, !.thread = "paho",
                              !.rcv_active = (SessionState = "Active")]]
  /\ NoAvail
  /\ UNCHANGED << sessVars, stop_event, optVars, client_security, fileVars, busVars, pending_write_tasks, write_lock,
                  lock_waiters >>

\* Faulty variant, for sensitivity: on_message starts the device write itself
\* instead of handing it to the main loop
on_message_dispatch_WritesDirectly(c) ==
  /\ cmds[c].phase = "msg"
  /\ IF ~opc_online
     THEN /\ cmds' = [cmds EXCEPT ![c] =
                       Over([@ EXCEPT !.pubs = Append(@, Msg(topic_error(cmds[c].path),
                                                             "opc_offline"))], "rejected")]
          /\ UNCHANGED << pending_write_tasks, write_lock >>
     ELSE /\ cmds' = [cmds EXCEPT ![c] = [@ EXCEPT !.phase = "writing", !.dev = "started"]]
          /\ write_lock' = c
          /\ pending_write_tasks' = pending_write_tasks \cup {c}
  /\ NoAvail
  /\ UNCHANGED << sessVars, stop_event, optVars, client_security, fileVars, busVars, lock_waiters >>

\* on_message, lines 211-246: opc_online is not set: publish "opc_offline" on
\* the error topic; else loop.call_soon_threadsafe(_schedule_write)
on_message_dispatch(c) ==
  /\ cmds[c].phase = "msg"
  /\ IF ~opc_online
     THEN cmds' = [cmds EXCEPT ![c] =
                    Over([@ EXCEPT !.pubs = Append(@, Msg(topic_error(cmds[c].path),
                                                          "opc_offline"))], "rejected")]
     ELSE cmds' = [cmds EXCEPT ![c] = [@ EXCEPT !.phase = "queued"]]
  /\ NoAvail
  /\ UNCHANGED << sessVars, stop_event, optVars, client_security, fileVars, busVars, pending_write_tasks, write_lock,
                  lock_waiters >>

\* _schedule_write, run by the main loop: the task is created and added to
\* pending_write_tasks
schedule_write(c) ==
  /\ Running
  /\ cmds[c].phase = "queued"
  /\ cmds' = [cmds EXCEPT ![c] = [@ EXCEPT !.phase = "task", !.thread = "loop"]]
  /\ pending_write_tasks' = pending_write_tasks \cup {c}
  /\ NoAvail
  /\ UNCHANGED << sessVars, stop_event, optVars, client_security, fileVars, busVars, write_lock, lock_waiters >>

\* do_write inside "async with write_lock", up to its await or its end:
\* parse_payload, _variant_for_type, then await node.write_value(dv).  An
\* exception leaves the lock and publishes str(e) on the error topic.
do_write_locked(c) ==
  LET value == parse_payload(cmds[c].payload, cmds[c].t)
      variant == variant_for_type(value, cmds[c].t)
      err == IF ~value.ok THEN value.err ELSE variant.err
  IN IF value.ok /\ variant.ok
     THEN /\ cmds' = [cmds EXCEPT ![c] = [@ EXCEPT !.phase = "writing", !.dev = "started"]]
          /\ write_lock' = c
          /\ UNCHANGED pending_write_tasks
     ELSE /\ cmds' = [cmds EXCEPT ![c] =
                       Over([@ EXCEPT !.pubs = Append(@, Msg(topic_error(cmds[c].path), err))],
                            "done")]
          /\ write_lock' = 0
          /\ pending_write_tasks' = pending_write_tasks \ {c}

\* Faulty variant, for sensitivity: the task does not look at the lock
do_write_start_NoLock(c) ==
  /\ Running
  /\ cmds[c].phase = "task"
  /\ do_write_locked(c)
  /\ UNCHANGED lock_waiters
  /\ NoAvail
  /\ UNCHANGED << sessVars, stop_event, optVars, client_security, fileVars, busVars >>

\* The task's first step: write_lock.acquire() returns at once if the lock is
\* free and nobody waits, else the task queues on the lock.
do_write_start(c) ==
  /\ Running
  /\ cmds[c].phase = "task"
  /\ IF write_lock = 0 /\ lock_waiters = << >>
     THEN /\ do_write_locked(c)
          /\ UNCHANGED lock_waiters
     ELSE /\ cmds' = [cmds EXCEPT ![c] = [@ EXCEPT !.phase = "waiting"]]
          /\ lock_waiters' = Append(lock_waiters, c)
          /\ UNCHANGED << write_lock, pending_write_tasks >>
  /\ NoAvail
  /\ UNCHANGED << sessVars, stop_event, optVars, client_security, fileVars, busVars >>

\* The first waiter of the released lock acquires it
do_write_resume(c) ==
  /\ Running
  /\ cmds[c].phase = "waiting"
  /\ write_lock = 0
  /\ lock_waiters # << >> /\ Head(lock_waiters) = c
  /\ lock_waiters' = Tail(lock_waiters)
  /\ do_write_locked(c)
  /\ NoAvail
  /\ UNCHANGED << sessVars, stop_event, optVars, client_security, fileVars, busVars >>

\* Faulty variant, for sensitivity: a write the device rejected is run again
write_value_returns_RetryOnFailure(c, ok) ==
  /\ Running
  /\ cmds[c].phase = "writing"
  /\ IF ok
     THEN /\ cmds' = [cmds EXCEPT ![c] =
                       Over([@ EXCEPT !.dev = "ok",
                                      !.pubs = Append(@, Msg(topic_status(cmds[c].path), "ok"))],
                            "done")]
          /\ pending_write_tasks' = pending_write_tasks \ {c}
     ELSE /\ cmds' = [cmds EXCEPT ![c] = [@ EXCEPT !.dev = "failed", !.phase = "task"]]
          /\ UNCHANGED pending_write_tasks
  /\ write_lock' = 0
  /\ NoAvail
  /\ UNCHANGED << sessVars, stop_event, optVars, client_security, fileVars, busVars, lock_waiters >>

\* Faulty variant, for sensitivity: "ok" is published before the result of the write is looked at
write_value_returns_OkFirst(c, ok) ==
  /\ Running
  /\ cmds[c].phase = "writing"
  /\ cmds' = [cmds EXCEPT ![c] =
               Over([@ EXCEPT !.dev = IF ok THEN "ok" ELSE "failed",
                              !.pubs = IF ok THEN Append(@, Msg(topic_status(cmds[c].path), "ok"))
                                       ELSE @ \o << Msg(topic_status(cmds[c].path), "ok"),
                                                    Msg(topic_error(cmds[c].path), "BadWrite") >>],
                    "done")]
  /\ write_lock' = 0
  /\ pending_write_tasks' = pending_write_tasks \ {c}
  /\ NoAvail
  /\ UNCHANGED << sessVars, stop_event, optVars, client_security, fileVars, busVars, lock_waiters >>

\* Faulty variant, for sensitivity: a write the device rejected requests a reconnect
write_value_returns_ReconnectOnFailure(c, ok) ==
  /\ Running
  /\ cmds[c].phase = "writing"
  /\ cmds' = [cmds EXCEPT ![c] =
               Over([@ EXCEPT !.dev = IF ok THEN "ok" ELSE "failed",
                              !.pubs = Append(@, IF ok THEN Msg(topic_status(cmds[c].path), "ok")
                                                 ELSE Msg(topic_error(cmds[c].path), "BadWrite"))],
                    "done")]
  /\ write_lock' = 0
  /\ pending_write_tasks' = pending_write_tasks \ {c}
  /\ reconnect_event' = (reconnect_event \/ ~ok)
  /\ NoAvail
  /\ UNCHANGED << pc, opc_online, write_nodes, backoff, subscription, idx, need_export,
                  avail, delays, stop_event, optVars, client_security, fileVars, busVars, lock_waiters >>

\* await node.write_value(dv) is over: the lock is left; "ok" is published on
\* the status topic, or the exception's text on the error topic
write_value_returns(c, ok) ==
  /\ Running
  /\ cmds[c].phase = "writing"
  /\ cmds' = [cmds EXCEPT ![c] =
               Over([@ EXCEPT !.dev = IF ok THEN "ok" ELSE "failed",
                              !.pubs = Append(@, IF ok THEN Msg(topic_status(cmds[c].path), "ok")
                                                 ELSE Msg(topic_error(cmds[c].path), "BadWrite"))],
                    "done")]
  /\ write_lock' = 0
  /\ pending_write_tasks' = pending_write_tasks \ {c}
  /\ NoAvail
  /\ UNCHANGED << sessVars, stop_event, optVars, client_security, fileVars, busVars, lock_waiters >>

\* ------------------------------------------------------------ specifications
InitCommon ==
  /\ pc = "MqttConnect"
  /\ stop_event = FALSE
  /\ opc_online = FALSE
  /\ reconnect_event = FALSE
  /\ write_nodes = << >>
  /\ backoff = backoff_init
  /\ subscription = FALSE
  /\ idx = 0
  /\ bus = "new"
  /\ bus_sub = FALSE
  /\ on_connect_cb = "runtime"
  /\ result_rc = << >>
  /\ avail = "none"
  /\ out = << >>
  /\ delays = << >>
  /\ cmds = [c \in Cmds |-> NewCmd]
  /\ pending_write_tasks = {}
  /\ write_lock = 0
  /\ lock_waiters = << >>
  /\ walks = 0
  /\ client_security = Unsecured
  /\ tags = EmptyCatalog
  /\ generated_tags_file = [exists |-> FALSE, content |-> EmptyCatalog, writes |-> 0]

\* Lines 154-165: the options of opts["bridge"], the files found at process
\* start (the catalog file exists), existing_tags and need_export
InitFiles(bridge_cfgs, export_exists, catalogs) ==
  /\ bridge_cfg \in bridge_cfgs
  /\ \E ex \in export_exists, c \in catalogs :
       /\ export_file = [exists |-> ex, nodes |-> << >>, writes |-> 0]
       /\ tags_file = [content |-> c, writes |-> 0]
       /\ at_start = [export_exists |-> ex, tags |-> c]
  /\ existing_tags = load_tags(tags_file)
  /\ need_export = NeedExport(bridge_cfg.auto_export, export_file.exists, existing_tags)

BridgeCfgs == [auto_export : BOOLEAN, merge_into : BOOLEAN]

\* The session loop with its faults, up to cap consecutive backoff sleeps
SessionNext(cap) ==
  \/ MqttConnectStart
  \/ \E rc \in {0, 3, 4, 5, -1} : MqttConnAck(rc)
  \/ LoopTop(cap)
  \/ ConnectOK
  \/ CreateSubOK(cap)
  \/ SubReadOK
  \/ SubRwOK
  \/ \E at \in {"Connecting", "CreateSub", "SubRead", "SubRW"} : AwaitRaises(at, cap)
  \/ IdleLoopExit
  \/ StopSubDeleted
  \/ StopDisconnected
  \/ RecSubDeleted
  \/ RecDisconnected
  \/ BackoffOver
  \/ on_sub_status(cap)
  \/ StopSignal

SecuringNext(cap) ==
  \/ SetSecurityOK
  \/ AwaitRaises("Securing", cap)

WriteFailures == {"none", "export", "generated", "tags"}

DiscoveryNext(exports, fails, cap) ==
  \E nodes \in exports, fail \in fails : DiscoveryReturns(nodes, fail, cap)

CommandNext ==
  \/ \E c \in Cmds, in \in CmdInputs, retain \in BOOLEAN :
       on_message_lookup(c, in[1], in[2], retain)
  \/ \E c \in Cmds : on_message_dispatch(c)
  \/ \E c \in Cmds : schedule_write(c)
  \/ \E c \in Cmds : do_write_start(c)
  \/ \E c \in Cmds : do_write_resume(c)
  \/ \E c \in Cmds, ok \in BOOLEAN : write_value_returns(c, ok)

\* The session alone: no command arrives; every security setting above; the
\* full catalog, no export file yet, auto-export on or off (without merge).
InitSession ==
  /\ InitCommon
  /\ cfg \in CfgPassing \cup CfgRaising
  /\ InitFiles({b \in BridgeCfgs : ~b.merge_into}, {FALSE}, {CatalogFull})

NextSession ==
  \/ SessionNext(MaxSleeps)
  \/ SecuringNext(MaxSleeps)
  \/ DiscoveryNext({ExportPlant}, {"none", "export"}, MaxSleeps)

SpecSession == InitSession /\ [][NextSession]_vars

\* The session under the scheduling of the asyncio loop: an await of the main
\* coroutine that can return does return (device requests end by an answer or
\* by the library's request timeout, asyncio.sleep ends), and the coroutine
\* then runs to its next await.
SessionFairness ==
  /\ WF_vars(LoopTop(MaxSleeps))
  /\ WF_vars(SetSecurityOK)
  /\ WF_vars(SubReadOK)
  /\ WF_vars(SubRwOK)
  /\ WF_vars(IdleLoopExit)
  /\ WF_vars(RecSubDeleted)
  /\ WF_vars(RecDisconnected)
  /\ WF_vars(BackoffOver)

SpecSessionFair == InitSession /\ [][NextSession]_vars /\ SessionFairness

\* ... and every device operation in progress returns: the first CONNACK (or
\* its 10 s timeout), connect, the address-space walk, create_subscription,
\* and the deletes and disconnects of the stop path.
StopFairness ==
  /\ SessionFairness
  /\ WF_vars(MqttConnectStart)
  /\ WF_vars(\E rc \in {0, 3, 4, 5, -1} : MqttConnAck(rc))
  /\ WF_vars(ConnectOK)
  /\ WF_vars(DiscoveryReturns(ExportPlant, "none", MaxSleeps))
  /\ WF_vars(CreateSubOK(MaxSleeps))
  /\ WF_vars(StopSubDeleted)
  /\ WF_vars(StopDisconnected)

SpecSessionStopFair == InitSession /\ [][NextSession]_vars /\ StopFairness

\* The session with outages of the bus connection
BusNext == BusLost \/ BusReconnected

InitBus ==
  /\ InitCommon
  /\ cfg = CfgNone
  /\ InitFiles({[auto_export |-> FALSE, merge_into |-> FALSE]}, {TRUE}, {CatalogFull})

NextBus == SessionNext(MaxRetries) \/ BusNext

SpecBus == InitBus /\ [][NextBus]_vars

\* The session with the discovery export: security off; every setting of
\* auto-export and merge, with and without an export file, on four catalogs.
InitDiscovery ==
  /\ InitCommon
  /\ cfg = CfgNone
  /\ InitFiles(BridgeCfgs, BOOLEAN, {EmptyCatalog, CatalogNull, CatalogFull, CatalogCurated})

NextDiscovery == SessionNext(MaxRetries) \/ DiscoveryNext(Exports, WriteFailures, MaxRetries)

SpecDiscovery == InitDiscovery /\ [][NextDiscovery]_vars

\* The session with the discovery export walked from the device's address
\* space under every browse setting: auto-export on, no export file yet.
InitWalk ==
  /\ InitCommon
  /\ cfg = CfgNone
  /\ InitFiles([auto_export : {TRUE}, merge_into : BOOLEAN, browse : BrowseCfgs], {FALSE},
               {EmptyCatalog, CatalogCurated})

NextWalk ==
  \/ SessionNext(MaxRetries)
  \/ DiscoveryNext({browse_export(DeviceSpace, bridge_cfg.browse)}, {"none", "export"},
                   MaxRetries)

SpecWalk == InitWalk /\ [][NextWalk]_vars

\* The session with the discovery export and an operator editing the catalog
\* file: auto-export and merge on.
InitOperator ==
  /\ InitCommon
  /\ cfg = CfgNone
  /\ InitFiles({[auto_export |-> TRUE, merge_into |-> TRUE]}, BOOLEAN,
               {EmptyCatalog, CatalogCurated})

NextOperator ==
  \/ SessionNext(MaxRetries)
  \/ DiscoveryNext(Exports, {"none", "tags"}, MaxRetries)
  \/ OperatorEdit

SpecOperator == InitOperator /\ [][NextOperator]_vars

\* The session with one command on a register of every type tag: the catalog
\* binds the path "reg" read-write with a type tag the codec or the write site
\* knows; the command carries one of the payloads.
TypeTags ==
  {"bool", "int", "dint", "sint", "lint", "uint", "udint", "usint", "ulint", "word",
   "dword", "uint16", "uint32", "byte", "uint8", "int16", "int32", "float"}

CatalogTyped(t) ==
  [read |-> TagsRead, rw |-> << [path |-> "reg", node |-> "ns=3;s=R", type |-> t] >>,
   nulls |-> FALSE]

CodecPayloads == {"1", "-3", " 3.0 ", "70000", "maybe"}

InitCodec ==
  /\ InitCommon
  /\ cfg = CfgNone
  /\ InitFiles({[auto_export |-> FALSE, merge_into |-> TRUE]}, {FALSE},
               {CatalogTyped(t) : t \in TypeTags})

CodecNext ==
  \/ \E payload \in CodecPayloads : on_message_lookup(1, "reg", payload, FALSE)
  \/ on_message_dispatch(1)
  \/ schedule_write(1)
  \/ do_write_start(1)
  \/ \E ok \in BOOLEAN : write_value_returns(1, ok)

NextCodec == SessionNext(MaxRetries) \/ CodecNext

SpecCodec == InitCodec /\ [][NextCodec]_vars

\* The session with commands: security off, no discovery export pending.
Init ==
  /\ InitCommon
  /\ cfg = CfgNone
  /\ InitFiles({[auto_export |-> FALSE, merge_into |-> TRUE]}, {FALSE}, {CatalogFull})

Next == SessionNext(MaxRetries) \/ CommandNext

Spec == Init /\ [][Next]_vars

\* ------------------------------------------------------------------- claims
Published(payload) == \E i \in 1..Len(out) : out[i] = AvailMsg(payload)

\* C1: "online" is published on the availability topic only by the step that
\* completes Subscribing (every catalog entry subscribed, write_nodes
\* rebuilt), never while the session is still connecting, securing,
\* discovering or subscribing.
C1_OnlineOnlyOnEnteringActive == Published("online") => SessionState = "Active"

\* C2: every Reconnecting or Stopping episode publishes "offline": the step
\* that ends the teardown of either (into the backoff sleep or into
\* Terminated) publishes it, the session leaves Reconnecting or Stopping by
\* no other step, and the fault notification publishes it as it requests the
\* reconnect.
C2_OfflineOnReconnectingOrStopping ==
  [][ /\ (pc' \in {"Backoff", "Terminated"} /\ pc' # pc) => Published("offline")'
      /\ (pc \in {"RecSubDel", "RecDisc", "Backoff", "StopSubDel", "StopDisc"} /\ pc' # pc)
           => pc' \in {"RecDisc", "StopDisc", "Backoff", "Terminated", "LoopTop"}
      /\ (pc \in {"RecSubDel", "RecDisc", "StopSubDel", "StopDisc"}) => pc' # "LoopTop"
      /\ (reconnect_event' /\ ~reconnect_event) => Published("offline")' ]_vars

C2_Witness ==
  /\ pc = "Backoff"
  /\ Published("offline")
  /\ subscription

\* C3: the delays slept since the last Active (or the start) are
\* 1, 2, 4, 8, 16, 30, 30, ...: the i-th is min(2^(i-1), 30).
C3_BackoffSequence ==
  \A i \in 1..Len(delays) : delays[i] = Min(2 ^ (i - 1), backoff_max)

C3_Witness ==
  /\ Len(delays) >= 7
  /\ delays[6] = 30
  /\ delays[7] = 30

\* C4: the backoff delay is 1 only as long as no sleep was taken since the
\* last entry into Active (or the start): a connect that succeeds without
\* reaching Active does not reset it, and the first sleep after Active is 1.
C4_BackoffResetOnlyByActive ==
  /\ (backoff = 1) <=> (delays = << >> \/ (pc = "Backoff" /\ Len(delays) = 1))
  /\ (pc = "Backoff" /\ Len(delays) = 1) => delays[1] = 1
  /\ pc = "Active" => backoff = 1

\* the second consecutive failure came after a successful connect and
\* create_subscription, and the delay was not reset
C4_Witness ==
  /\ pc = "Backoff"
  /\ subscription
  /\ Len(delays) = 2
  /\ backoff = 2

\* C5: a transition into Reconnecting or Stopping cancels every pending
\* write: a command accepted while Active before it (overtaken) makes no
\* further progress, also when its write task did not exist yet at the
\* transition: it is either cancelled, or has started no device write and
\* published nothing.
C5_OvertakenWritesMakeNoProgress ==
  \A c \in Cmds :
    (cmds[c].overtaken /\ cmds[c].rcv_active) =>
      \/ cmds[c].phase = "cancelled"
      \/ (cmds[c].dev = "none" /\ cmds[c].pubs = << >>)

\* C6: a non-retained command for an rw path that arrived while the session
\* was not Active is, once on_message has handled it, rejected with the
\* "opc_offline" sentinel on its error topic: it is not dropped silently and
\* no write is queued for it.
C6_OfflineCommandGetsSentinel ==
  \A c \in Cmds :
    (~cmds[c].rcv_active /\ ~cmds[c].retain /\ cmds[c].phase \notin {"unsent", "msg"}) =>
      /\ cmds[c].phase = "rejected"
      /\ cmds[c].pubs = << Msg(topic_error(cmds[c].path), "opc_offline") >>

\* C7: a device write starts only while the session is Active, and only for
\* a command that arrived while it was Active.
C7_WritesOnlyWhileActive ==
  [][ \A c \in Cmds :
        (cmds[c].dev = "none" /\ cmds'[c].dev = "started") =>
          (SessionState = "Active" /\ cmds[c].rcv_active) ]_vars

\* C8: a retained message on <prefix>/<path>/set is dropped in on_message: it
\* is never queued, never becomes a write task, starts no device write and
\* publishes nothing.
C8_RetainedNeverWritten ==
  \A c \in Cmds :
    cmds[c].retain =>
      /\ cmds[c].phase \in {"ignored", "discarded"}
      /\ cmds[c].dev = "none"
      /\ cmds[c].pubs = << >>
      /\ c \notin pending_write_tasks

\* a retained message for a mapped path arrived while the device was online
C8_Witness ==
  \E c \in Cmds :
    /\ cmds[c].retain
    /\ cmds[c].phase = "discarded"
    /\ pc = "Active"
    /\ opc_online

\* C9: a write that ran to its end published exactly one outcome, not
\* retained: "ok" on the status topic if the device write succeeded, else the
\* error text on the error topic; no command ever has two publishes.
C9_ExactlyOneOutcome ==
  \A c \in Cmds :
    /\ Len(cmds[c].pubs) <= 1
    /\ \A i \in 1..Len(cmds[c].pubs) : ~cmds[c].pubs[i].retain
    /\ cmds[c].phase = "done" =>
         /\ Len(cmds[c].pubs) = 1
         /\ cmds[c].dev = "ok" => cmds[c].pubs[1] = Msg(topic_status(cmds[c].path), "ok")
         /\ cmds[c].dev # "ok" => cmds[c].pubs[1].topic = topic_error(cmds[c].path)

\* one write succeeded and one was rejected by the device
C9_Witness ==
  \E c, d \in Cmds :
    /\ cmds[c].phase = "done" /\ cmds[c].dev = "ok"
    /\ cmds[c].pubs = << Msg(topic_status(cmds[c].path), "ok") >>
    /\ cmds[d].phase = "done" /\ cmds[d].dev = "failed"
    /\ cmds[d].pubs = << Msg(topic_error(cmds[d].path), "BadWrite") >>

\* C10: a command whose payload fails validation ("maybe" for a bool tag, a
\* negative number for an unsigned tag) starts no device write, and once its
\* write task has run, the validation error text is on its error topic.
C10_InvalidBool(c) == cmds[c].t = "bool" /\ cmds[c].payload = "maybe"
C10_NegativeUnsigned(c) == cmds[c].t = "uint" /\ cmds[c].payload = "-3"

C10_InvalidPayloadNeverWritten ==
  \A c \in Cmds :
    (C10_InvalidBool(c) \/ C10_NegativeUnsigned(c)) =>
      /\ cmds[c].dev = "none"
      /\ cmds[c].phase # "writing"
      /\ cmds[c].phase = "done" =>
           cmds[c].pubs = << Msg(topic_error(cmds[c].path),
                                 IF C10_InvalidBool(c) THEN ErrBool ELSE ErrNegative) >>

C10_Witness ==
  \E c, d \in Cmds :
    /\ C10_InvalidBool(c) /\ cmds[c].phase = "done"
    /\ cmds[c].pubs = << Msg(topic_error("valve"), ErrBool) >>
    /\ C10_NegativeUnsigned(d) /\ cmds[d].phase = "done"
    /\ cmds[d].pubs = << Msg(topic_error("speed"), ErrNegative) >>

\* C11 (as stated): every non-retained command with a valid payload that
\* arrived for a mapped rw path while the session was Active, and that
\* on_message handed to the loop, has led to a device write attempt once its
\* handling is over.
C11_Valid(c) ==
  LET value == parse_payload(cmds[c].payload, cmds[c].t)
  IN value.ok /\ variant_for_type(value, cmds[c].t).ok

C11_Received(c) == cmds[c].rcv_active /\ ~cmds[c].retain /\ C11_Valid(c)

C11_ExactlyOneWriteAttempt ==
  \A c \in Cmds :
    (C11_Received(c) /\ cmds[c].phase \in {"cancelled", "done"}) =>
      cmds[c].dev # "none"

\* C11 (amended): no command is duplicated, and a command received while
\* Active is lost only by the cancellation of its write task or by the
\* device going offline before it is dispatched: a command starts at most
\* one device write (none -> started -> ok or failed, never started again),
\* a valid command whose task ran to its end made exactly one attempt, and a
\* valid command received while Active is never dropped by on_message.
C11_AtMostOneWriteAttempt ==
  [][ \A c \in Cmds :
        /\ cmds'[c].dev # cmds[c].dev =>
             \/ cmds[c].dev = "none" /\ cmds'[c].dev = "started"
             \/ cmds[c].dev = "started" /\ cmds'[c].dev \in {"ok", "failed"}
        /\ (C11_Received(c)' /\ cmds'[c].phase = "done") => cmds'[c].dev \in {"ok", "failed"}
        /\ (cmds'[c].rcv_active /\ ~cmds'[c].retain) =>
             cmds'[c].phase \notin {"ignored", "discarded"} ]_vars

\* one command received while Active was written, another was cancelled
\* before its write started
C11_Witness ==
  \E c, d \in Cmds :
    /\ C11_Received(c) /\ cmds[c].phase = "done" /\ cmds[c].dev = "ok"
    /\ C11_Received(d) /\ cmds[d].phase = "cancelled" /\ cmds[d].dev = "none"

\* C12: at most one device write is in progress at any time, and the task
\* whose write is in progress holds write_lock.
C12_OneWriteAtATime ==
  /\ Cardinality({c \in Cmds : cmds[c].phase = "writing"}) <= 1
  /\ \A c \in Cmds : cmds[c].phase = "writing" => write_lock = c

\* a second command's task waits on the lock while the first one writes
C12_Witness ==
  \E c, d \in Cmds :
    /\ cmds[c].phase = "writing"
    /\ cmds[d].phase = "waiting"
    /\ lock_waiters = << d >>

\* C13: a device fault is never fatal: once the handler runs or a fault
\* notification has requested the reconnect, and no stop signal is raised,
\* the bridge reaches the next await client.connect() (with settings whose
\* security checks pass), or a stop signal is raised on the way.
C13_FaultLeadsToNewConnect ==
  ((reconnect_event \/ pc \in {"RecSubDel", "RecDisc", "Backoff"})
     /\ ~stop_event /\ cfg \in CfgPassing)
    ~> (pc = "Connecting" \/ stop_event)

\* a new connect attempt after two faults, the later one past create_subscription
C13_Witness ==
  /\ pc = "Connecting"
  /\ Len(delays) = 2
  /\ ~stop_event
  /\ backoff = 4

\* C14: a failure of the security checks is never retried: with settings on
\* which a check raises, no backoff sleep is ever taken.
C14_SecurityFailureNeverRetried ==
  SecurityChecksRaise(cfg) => (pc # "Backoff" /\ delays = << >>)

\* C15: await client.connect() is reached, and the device is online, only
\* with settings that pass the checks of the attempt: known policy and mode
\* names and, with security enabled, client certificate and key present, the
\* application URI in the certificate, and in strict trust mode the pinned
\* server certificate present.
C15_ConnectOnlyAfterSecurityChecks ==
  (pc = "Connecting" \/ opc_online) =>
    /\ cfg.security_policy \in {"None", "Basic128Rsa15", "Basic256", "Basic256Sha256"}
    /\ cfg.security_mode \in {"None", "Sign", "SignAndEncrypt"}
    /\ (cfg.security_policy # "None" /\ cfg.security_mode # "None") =>
         /\ cfg.client_cert
         /\ cfg.client_key
         /\ cfg.cert_contains_uri
         /\ ~cfg.auto_trust_server => cfg.server_cert

\* a connect attempt in strict trust mode
C15_Witness ==
  /\ pc = "Connecting"
  /\ cfg = CfgStrict

\* C16: the initial bus connection aborts the bridge only on an
\* authentication or authorization refusal (reason code 4 or 5).
C16_OnlyAuthFailureAborts ==
  pc = "Aborted" => (result_rc # << >> /\ result_rc[1] \in {4, 5})

\* C17: after a first CONNACK with reason code 4 or 5 the bridge is aborted:
\* it never reaches the reconnect loop, the device is never online and no
\* availability is published.
C17_AuthFailureAborts ==
  (result_rc # << >> /\ result_rc[1] \in {4, 5}) =>
    /\ pc = "Aborted"
    /\ ~opc_online
    /\ avail = "none"
    /\ out = << >>
    /\ delays = << >>

C17_Witness ==
  /\ pc = "Aborted"
  /\ result_rc = << 5 >>
  /\ bus = "connecting"

\* C18: when the bridge has terminated, the bus client is disconnected.
C18_TerminatedBusDisconnected == pc = "Terminated" => bus = "closed"

\* C19: with a stop signal raised, the idle loop of Active is left only into
\* the stop path (Stopping), never into the handler (Reconnecting).
C19_StopGoesToStopping ==
  [][ (pc = "Active" /\ stop_event /\ pc' # "Active") => pc' = "StopSubDel" ]_vars

\* C20: write_nodes is either empty or the complete mapping of the rw list.
C20_WriteRouteNeverPartial == DOMAIN write_nodes \in {{}, RwPaths}

\* C23: the catalog written by the merge keeps every existing entry
\* unchanged, in its list and order, as a prefix; what follows it in either
\* list are generated entries whose device address is bound in neither list
\* of the existing catalog.
C23_IsPrefix(old, new) ==
  /\ Len(old) <= Len(new)
  /\ \A i \in 1..Len(old) : new[i] = old[i]

C23_Appended(old, new, gen, existing) ==
  \A i \in (Len(old) + 1)..Len(new) :
    /\ \E j \in 1..Len(gen) : gen[j] = new[i]
    /\ \A k \in 1..Len(existing.read) : existing.read[k].node # new[i].node
    /\ \A k \in 1..Len(existing.rw) : existing.rw[k].node # new[i].node

C23_MergeKeepsExisting ==
  [][ tags_file'.writes # tags_file.writes =>
        LET merged == tags_file'.content
            generated == generated_tags_file'.content
        IN /\ C23_IsPrefix(existing_tags.read, merged.read)
           /\ C23_IsPrefix(existing_tags.rw, merged.rw)
           /\ C23_Appended(existing_tags.read, merged.read, generated.read, existing_tags)
           /\ C23_Appended(existing_tags.rw, merged.rw, generated.rw, existing_tags)
           /\ existing_tags' = merged ]_vars

\* the curated catalog merged with the plant's export: temp and level are
\* appended to read; the pump (bound read-only by the operator) and the valve
\* are dropped from rw
C23_Witness ==
  /\ tags_file.writes = 1
  /\ at_start.tags = CatalogCurated
  /\ generated_tags_file.content = export_to_tags(ExportPlant)
  /\ Len(tags_file.content.read) = 3
  /\ tags_file.content.rw = CatalogCurated.rw

\* C24: the address-space walk is started at most once, and each of the
\* export, generated-catalog and catalog files is written at most once.
C24_DiscoveryAtMostOnce ==
  /\ walks <= 1
  /\ export_file.writes <= 1
  /\ generated_tags_file.writes <= 1
  /\ tags_file.writes <= 1

\* C25: discovery has run (the walk was started, a file was written) only if
\* auto-export is enabled and, at process start, the export file did not
\* exist or the catalog was empty.
C25_DiscoveryOnlyIfNeeded ==
  (walks > 0 \/ export_file.writes > 0 \/ generated_tags_file.writes > 0
     \/ tags_file.writes > 0 \/ pc = "Discovery") =>
    /\ bridge_cfg.auto_export
    /\ ~at_start.export_exists \/ tags_is_empty(at_start.tags)

\* discovery ran on an empty catalog although an export file existed
C25_Witness ==
  /\ export_file.writes = 1
  /\ at_start.export_exists
  /\ at_start.tags = EmptyCatalog
  /\ pc = "Active"

\* C26: with auto-export disabled the catalog file is never written: it
\* holds what it held at process start.
C26_CatalogUntouchedWithoutAutoExport ==
  ~bridge_cfg.auto_export => tags_file = [content |-> at_start.tags, writes |-> 0]

\* auto-export off, empty catalog, no export file, merge enabled: the session
\* was Active and is reconnecting
C26_Witness ==
  /\ ~bridge_cfg.auto_export
  /\ bridge_cfg.merge_into
  /\ at_start.tags = EmptyCatalog
  /\ ~at_start.export_exists
  /\ pc = "Backoff"
  /\ subscription

\* C28: once a stop signal is raised, no step publishes "online" and no step
\* starts a device connect (reaches await client.connect()).
C28_NoConnectAfterStop ==
  [][ stop_event =>
        /\ ~Published("online")'
        /\ pc' = "Connecting" => pc = "Connecting" ]_vars

\* C29: after a stop signal, from every state of the session loop (the bus
\* connection is established), the bridge eventually reaches Terminated,
\* provided the device operations in progress return.
C29_StopLeadsToTerminated ==
  (stop_event /\ pc \notin {"MqttConnect", "ConnectingBus", "Aborted"})
    ~> (pc = "Terminated")

\* terminated by the stop path after a reconnect
C29_Witness ==
  /\ pc = "Terminated"
  /\ stop_event
  /\ bus = "closed"
  /\ subscription
  /\ backoff = 1

\* C21: every step that changes a command's device write (starts it, ends
\* it) is a step of a task on the main loop; the steps of the inbound-message
\* callback, on the bus client's thread, leave the device writes, the task
\* set, the lock and the session state alone and publish nothing but the
\* "opc_offline" rejection.
C21_OnBusThread(c) ==
  /\ cmds[c].phase \in {"unsent", "msg"}
  /\ cmds'[c].phase # cmds[c].phase

C21_DeviceWritesOnMainLoop ==
  [][ \A c \in Cmds :
        /\ cmds'[c].dev # cmds[c].dev =>
              /\ cmds[c].thread = "loop"
              /\ cmds'[c].thread = "loop"
              /\ c \in pending_write_tasks
        /\ C21_OnBusThread(c) =>
              /\ cmds'[c].thread = "paho"
              /\ \A d \in Cmds : cmds'[d].dev = cmds[d].dev
              /\ UNCHANGED << pending_write_tasks, write_lock, lock_waiters, sessVars >>
              /\ \/ cmds'[c].pubs = cmds[c].pubs
                 \/ cmds'[c].pubs = Append(cmds[c].pubs,
                                           Msg(topic_error(cmds[c].path), "opc_offline")) ]_vars

\* one command written by a task on the main loop, another rejected by the
\* callback on the bus thread
C21_Witness ==
  \E c, d \in Cmds :
    /\ cmds[c].dev = "ok" /\ cmds[c].thread = "loop"
    /\ cmds[d].phase = "rejected" /\ cmds[d].thread = "paho"

\* C22: the step that ends a command in failure (validation error, device
\* rejection, opc_offline) changes nothing of the session: state, WriteRoute,
\* backoff, reconnect request and stop flag are unchanged and nothing is
\* published on the availability topic.
C22_FailingStep(c) ==
  /\ cmds[c].phase \notin {"done", "rejected"}
  /\ cmds'[c].phase \in {"done", "rejected"}
  /\ cmds'[c].dev # "ok"

C22_FailedCommandLeavesSession ==
  [][ (\E c \in Cmds : C22_FailingStep(c)) =>
        /\ UNCHANGED << pc, opc_online, reconnect_event, write_nodes, backoff,
                        subscription, avail, stop_event >>
        /\ SessionState' = SessionState
        /\ out' = << >> ]_vars

\* a payload validation error and a device rejection, both in an Active
\* session that stays Active and online
C22_Witness ==
  \E c, d \in Cmds :
    /\ cmds[c].phase = "done" /\ cmds[c].dev = "none"
    /\ cmds[d].phase = "done" /\ cmds[d].dev = "failed"
    /\ SessionState = "Active"
    /\ avail = "online"
    /\ backoff = backoff_init
    /\ ~reconnect_event

\* C30: the lock is held only by a task that is writing and waited for only
\* by tasks that are waiting: a task that ended (done, cancelled) neither
\* holds the lock nor stands in its queue, so a free lock with waiters goes to
\* the first of them.
C30_LockAlwaysReleased ==
  /\ write_lock # 0 => cmds[write_lock].phase = "writing" /\ write_lock \in pending_write_tasks
  /\ \A i \in 1..Len(lock_waiters) :
       /\ cmds[lock_waiters[i]].phase = "waiting"
       /\ lock_waiters[i] \in pending_write_tasks
  /\ \A c \in Cmds :
       cmds[c].phase = "waiting" => \E i \in 1..Len(lock_waiters) : lock_waiters[i] = c
  /\ (Running /\ lock_waiters # << >> /\ write_lock = 0) =>
       ENABLED do_write_resume(Head(lock_waiters))

\* a write cancelled by a reconnect while it held the lock, and a command of
\* the next session that holds the lock and writes
C30_Witness ==
  \E c, d \in Cmds :
    /\ cmds[c].phase = "cancelled" /\ cmds[c].dev = "started"
    /\ cmds[d].phase = "writing"
    /\ write_lock = d
    /\ ~cmds[d].overtaken

\* C27: whenever the bus connection is acknowledged again after an outage,
\* the bridge subscribes to the command topic filter and publishes the
\* current availability ("online" iff the device session is online).
C27_ResubscribeAfterBusReconnect ==
  [][ (bus = "down" /\ bus' = "up") =>
        /\ bus_sub'
        /\ Published(IF opc_online THEN "online" ELSE "offline")' ]_vars

\* C31: a command whose type tag the write site maps to an unsigned device
\* type and whose payload decodes to a negative number never gets as far as
\* the device write.
C31_UnsignedAtWriteSite ==
  {t \in TypeTags : variant_for_type(VInt(0), t).vtype \in {"UInt16", "UInt32", "Byte"}}

C31_DecodesNegative(payload) ==
  /\ IsFloatText(Strip(payload))
  /\ TruncTenths(FloatTenths[Strip(payload)]) < 0

C31_NegativeRejectedBeforeWrite ==
  \A c \in Cmds :
    (cmds[c].t \in C31_UnsignedAtWriteSite /\ C31_DecodesNegative(cmds[c].payload))
      => cmds[c].dev = "none"

\* C32: a command on an integer alias the codec accepts that reached the
\* device write was given a declared device type, never the type the device
\* library guesses from the value.
C32_IntAliases ==
  {"int", "dint", "sint", "lint", "uint", "udint", "usint", "ulint", "word", "dword"}

C32_IntWidthLookedUp ==
  \A c \in Cmds :
    (cmds[c].t \in C32_IntAliases /\ cmds[c].dev # "none")
      => variant_for_type(parse_payload(cmds[c].payload, cmds[c].t), cmds[c].t).vtype # "Guess"

\* C33: with security enabled, from the return of set_security on, the mode
\* of the client that connects is the mode resolved from the configured name.
C33_ConfiguredModeApplied ==
  (security_enabled(cfg)
     /\ pc \in {"Connecting", "Discovery", "CreateSub", "SubRead", "SubRW", "Active"})
    => client_security.mode = map_security_mode(cfg.security_mode)

\* C34: an attempt goes through set_security exactly when both the
\* configured policy and the configured mode are not None; with exactly one
\* of them None (valid names) no check raises and the client connects
\* unsecured.
C34_BothNotNone == cfg.security_policy # "None" /\ cfg.security_mode # "None"
C34_ExactlyOneNone ==
  /\ (cfg.security_policy = "None") # (cfg.security_mode = "None")
  /\ map_security_policy(cfg.security_policy) # "ValueError"
  /\ map_security_mode(cfg.security_mode) # "ValueError"

C34_SecurityEnabledIffBoth ==
  [][ (pc = "LoopTop" /\ pc' # "LoopTop") =>
        /\ pc' = "Securing" => C34_BothNotNone
        /\ (pc' = "Connecting" /\ client_security' = Unsecured) <=> ~C34_BothNotNone
        /\ C34_ExactlyOneNone => (pc' = "Connecting" /\ delays' = delays) ]_vars

\* a policy without a mode, no certificate, no key, strict trust without a
\* pinned server certificate: the session is Active and unsecured
C34_Witness ==
  /\ cfg = CfgPolicyOnly
  /\ SessionState = "Active"
  /\ client_security = Unsecured
  /\ delays = << >>

\* C35: the catalog file written by the merge contains every binding the
\* file held immediately before that write.
C35_Holds(cat, e) ==
  \/ \E i \in 1..Len(cat.read) : cat.read[i] = e
  \/ \E i \in 1..Len(cat.rw) : cat.rw[i] = e

C35_MergeKeepsFileBindings ==
  [][ tags_file'.writes # tags_file.writes =>
        /\ \A i \in 1..Len(tags_file.content.read) :
             C35_Holds(tags_file'.content, tags_file.content.read[i])
        /\ \A i \in 1..Len(tags_file.content.rw) :
             C35_Holds(tags_file'.content, tags_file.content.rw[i]) ]_vars

\* C36: if no device address occurs twice in the catalog at process start,
\* none occurs twice in the catalog the merge has written.
C36_NoAddressTwice(cat) ==
  LET all == cat.read \o cat.rw
  IN \A i, j \in 1..Len(all) : all[i].node = all[j].node => i = j

C36_AddressStaysUnique ==
  (tags_file.writes > 0 /\ C36_NoAddressTwice(at_start.tags))
    => C36_NoAddressTwice(tags_file.content)

\* C37: no variable of the written export has a normalized path that starts
\* with an excluded prefix, and with include-only prefixes configured the
\* top-level segment of every exported variable starts with one of them.
C37_NormalizedParts(parts) ==
  LET kept == SelectSeq(parts, LAMBDA p : Strip(p) # "")
  IN [i \in 1..Len(kept) |-> sanitize_path_part(kept[i])]

C37_FiltersRespected ==
  export_file.writes > 0 =>
    \A i \in 1..Len(export_file.nodes) :
      LET n == export_file.nodes[i]
      IN /\ \A p \in bridge_cfg.browse.exclude_prefixes :
              ~path_startswith(C37_NormalizedParts(n.browsePath), p)
         /\ bridge_cfg.browse.include_only_prefixes # {} =>
              \E p \in bridge_cfg.browse.include_only_prefixes :
                StrStartsWith(n.browsePath[1], p)

\* C38: no variable of the written export lies more than max_depth levels
\* below the root container.
C38_DepthBounded ==
  export_file.writes > 0 =>
    \A i \in 1..Len(export_file.nodes) :
      Len(export_file.nodes[i].browsePath) <= bridge_cfg.browse.max_depth

\* C39: the generated catalog written after a walk has one entry per
\* exported variable, in rw if bit 0x02 of its access level is set and in
\* read otherwise.
C39_WriteBit(al) == al \in {2, 3, 6, 7, 10, 11, 14, 15}

C39_Count(list, e) == Cardinality({i \in 1..Len(list) : list[i] = e})

C39_GeneratedPartitionsExport ==
  [][ generated_tags_file'.writes # generated_tags_file.writes =>
        LET nodes == export_file'.nodes
            gen == generated_tags_file'.content
            entry(n) == [path |-> join_path(n.browsePath), node |-> n.nodeId,
                         type |-> n.dataType]
            same(n) == Cardinality({i \in 1..Len(nodes) : entry(nodes[i]) = entry(n)})
        IN /\ Len(gen.read) + Len(gen.rw) = Len(nodes)
           /\ \A i \in 1..Len(nodes) :
                IF C39_WriteBit(nodes[i].accessLevel)
                THEN /\ C39_Count(gen.rw, entry(nodes[i])) = same(nodes[i])
                     /\ C39_Count(gen.read, entry(nodes[i])) = 0
                ELSE /\ C39_Count(gen.read, entry(nodes[i])) = same(nodes[i])
                     /\ C39_Count(gen.rw, entry(nodes[i])) = 0 ]_vars

\* the walk to MaxDepth without filters: Level (access level 5) is read-only,
\* Speed (2) and Valve (3) are read-write
C39_Witness ==
  /\ generated_tags_file.writes > 0
  /\ \E i \in 1..Len(generated_tags_file.content.read) :
       generated_tags_file.content.read[i].node = "ns=3;s=L"
  /\ \E i \in 1..Len(generated_tags_file.content.rw) :
       generated_tags_file.content.rw[i].node = "ns=3;s=P"
  /\ \E i \in 1..Len(generated_tags_file.content.rw) :
       generated_tags_file.content.rw[i].node = "ns=3;s=V"
  /\ pc = "Active"

\* C40: every type tag of the generated catalog is a tag the codec has a
\* branch for.
C40_GeneratedTypesRecognised ==
  LET gen == generated_tags_file.content
  IN /\ \A i \in 1..Len(gen.read) : Lower(Strip(gen.read[i].type)) \in CodecTags
     /\ \A i \in 1..Len(gen.rw) : Lower(Strip(gen.rw[i].type)) \in CodecTags

====
